---- MODULE Spec2Model ----
(***************************************************************************)
(* A model of xumx/test.py: the separation routine separate() and the      *)
(* command-line driver test().                                             *)
(*                                                                         *)
(* Signals are modelled with one time-frequency point per channel: a       *)
(* waveform is a sequence of per-channel integer amplitudes, a spectrogram *)
(* a sequence of per-channel integer bin values.  Arrays are indexed       *)
(* [source][channel] throughout, so the axis permutations of the code      *)
(* (transpose, .T) move no data in the model.                              *)
(***************************************************************************)
EXTENDS Integers, Sequences, FiniteSets, TLC

(***************************************************************************)
(* Bounds of the model.                                                    *)
(***************************************************************************)
MaxAmp == 1
MaxMask == 1
MaxNiter == 1
MaxModels == 2
MaxInputs == 2
MaxChannels == 3
GainSteps == 4
NbSamples == 4

(***************************************************************************)
(* Program constants.                                                      *)
(***************************************************************************)
n_fft == 4096

Alphas == {0, 1, 2}
Niters == (-1)..MaxNiter
Masks == 0..MaxMask
ModelPaths == 1..MaxModels
CallIds == {1, 2}
Rates == {22050, 44100}
Stems == {"song", "live"}
Folders == {"a", "b"}
OutDirs == {"", "out"}

sources == <<"bass", "drums", "vocals", "other">>

VARIABLES
    param_scope,   \* nnabla's process-wide parameter scope: the model file loaded last (0: none)
    model_files,   \* the model paths that exist on disk
    net,           \* the trained network of each model file: the mask it yields per source
    call,          \* the locals of each running separate() call
    hist,          \* per call, how often each stage of separate() has run
    inputs,        \* test(): args.inputs
    targs,         \* test(): the other parsed arguments
    tloc,          \* test(): its locals
    fs,            \* the files on disk: [dir, file, by]
    log            \* every mkdir and write test() has made

vars == <<param_scope, model_files, net, call, hist, inputs, targs, tloc, fs, log>>

(***************************************************************************)
(* Arithmetic helpers.                                                     *)
(***************************************************************************)
Abs(x) == IF x < 0 THEN -x ELSE x

Max(a, b) == IF a >= b THEN a ELSE b

Sign(x) == IF x < 0 THEN -1 ELSE IF x > 0 THEN 1 ELSE 0

RECURSIVE Pow(_, _)
Pow(x, n) == IF n <= 0 THEN 1 ELSE x * Pow(x, n - 1)

RECURSIVE SumChannel(_, _, _)
SumChannel(V, ch, k) == IF k = 0 THEN 0 ELSE V[k][ch] + SumChannel(V, ch, k - 1)

Channels(x) == 1..Len(x)

(***************************************************************************)
(* The collaborators separate() calls, as far as its data flow needs them. *)
(***************************************************************************)

\* STFT(audio_nn, center=True): each channel's bin value, at the scale that
\* istft() undoes by dividing by n_fft // 2.
STFT(audio_nn) == [c \in Channels(audio_nn) |-> audio_nn[c] * (n_fft \div 2)]

\* unmix_target(audio_nn, test=True), run with the parameters that are in the
\* process-wide scope at the moment of the call: the mixture's magnitude
\* spectrogram and an 8-channel mask, two channels per source.
UnmixForward(scope, audio_nn) ==
    LET mask == IF scope \in DOMAIN net THEN net[scope] ELSE [j \in 1..Len(sources) |-> 0]
    IN  [mix_spec |-> [c \in Channels(audio_nn) |-> Abs(STFT(audio_nn)[c])],
         msk |-> [k \in 1..(2 * Len(sources)) |-> mask[(k + 1) \div 2]]]

\* norbert.residual_model(V, X, alpha): one more source slice, the mixture
\* magnitude to the power alpha less what the sources explain, clamped at 0.
ResidualModel(V, X, a) ==
    Append(V, [c \in Channels(X) |->
                 Max(0, Pow(Abs(X[c]), a) - SumChannel(V, c, Len(V)))])

\* norbert.wiener(V, X, niter, use_softmask): per source slice the initial
\* estimate (a ratio mask of X, or the slice with the mixture's phase), and
\* the number of EM passes run on it, range(niter) of them.  The gain of the
\* ratio mask is quantised to GainSteps steps.
Wiener(V, X, niter, use_softmask) ==
    [j \in 1..Len(V) |->
       [init |-> [c \in Channels(X) |->
                    LET total == SumChannel(V, c, Len(V))
                    IN  IF use_softmask
                        THEN IF total = 0 THEN 0
                             ELSE (X[c] * ((GainSteps * V[j][c]) \div total)) \div GainSteps
                        ELSE V[j][c] * Sign(X[c])],
        em |-> Max(0, niter)]]

(***************************************************************************)
(* istft() and the pieces of separate().                                   *)
(***************************************************************************)

\* istft(X, n_fft, n_hopsize): scipy's inverse of X / (n_fft // 2).
istft(Yj) == [wave |-> [c \in Channels(Yj.init) |-> Yj.init[c] \div (n_fft \div 2)],
              em |-> Yj.em]

IsFirstSource_EveryPass(j) == j >= 0

\* "if j == 0": the model is built and its parameters loaded on the first source.
IsFirstSource(j) == j = 0

EstimateV_AlwaysPow(msk, mix_spec, j, softmask, alpha) ==
    [c \in Channels(mix_spec) |-> Pow(msk[j * 2 + c] * mix_spec[c], alpha)]

\* Vj = msk[Ellipsis, j*2:j*2+2, :] * mix_spec; Vj = Vj**alpha under softmask.
EstimateV(msk, mix_spec, j, softmask, alpha) ==
    [c \in Channels(mix_spec) |->
       LET vj == msk[j * 2 + c] * mix_spec[c]
       IN  IF softmask THEN Pow(vj, alpha) ELSE vj]

NeedsResidual_And(residual_model) == residual_model /\ Len(sources) = 1

\* "if residual_model or len(sources) == 1"
NeedsResidual(residual_model) == residual_model \/ Len(sources) = 1

ResidualExponent_Alpha(softmask, alpha) == alpha

\* "alpha if softmask else 1"
ResidualExponent(softmask, alpha) == IF softmask THEN alpha ELSE 1

\* "['residual'] if len(sources) > 1 else ['accompaniment']"
ResidualName == IF Len(sources) > 1 THEN "residual" ELSE "accompaniment"

SliceOf_First(Y, j) == Y[1]

\* Y[..., j] for the j-th name of enumerate(source_names), j counted from 0.
SliceOf(Y, j) == Y[j + 1]

\* estimates[name] = value on a dict, which keeps insertion order.
DictSet(d, name, value) ==
    IF \E i \in 1..Len(d) : d[i].key = name
    THEN [i \in 1..Len(d) |-> IF d[i].key = name THEN [key |-> name, value |-> value] ELSE d[i]]
    ELSE Append(d, [key |-> name, value |-> value])

Keys(d) == [i \in 1..Len(d) |-> d[i].key]

\* The loop "for j, name in enumerate(source_names)" up to its k-th pass.
RECURSIVE Synthesize(_, _, _)
Synthesize(Y, names, k) ==
    IF k = 0 THEN <<>>
    ELSE DictSet(Synthesize(Y, names, k - 1), names[k], istft(SliceOf(Y, k - 1)))

\* What one call of separate() returns when nothing else touches the
\* parameter scope between its load and its forward pass.
SeparateResult(audio, model_path, niter, softmask, alpha, residual_model) ==
    LET fw == UnmixForward(model_path, audio)
        V0 == [j \in 1..Len(sources) |-> EstimateV(fw.msk, fw.mix_spec, j - 1, softmask, alpha)]
        X  == STFT(audio)
        V1 == IF NeedsResidual(residual_model)
              THEN ResidualModel(V0, X, ResidualExponent(softmask, alpha)) ELSE V0
        names == IF NeedsResidual(residual_model) THEN Append(sources, ResidualName) ELSE sources
        Y  == Wiener(V1, X, niter, softmask)
    IN  Synthesize(Y, names, Len(names))

(***************************************************************************)
(* separate(), one action per stage.  call[c] holds the locals of call c   *)
(* and hist[c] counts the stages it has run.                               *)
(***************************************************************************)
NoHist == [build |-> 0, load |-> 0, forward |-> 0,
           v |-> [j \in 1..Len(sources) |-> 0],
           stft |-> 0, residual |-> 0, wiener |-> 0,
           synth |-> [j \in 1..(Len(sources) + 1) |-> 0]]

NewCall(pc, audio, model_path, niter, softmask, alpha, residual_model) ==
    [pc |-> pc, audio |-> audio, model_path |-> model_path, niter |-> niter,
     softmask |-> softmask, alpha |-> alpha, residual_model |-> residual_model,
     audio_nn |-> <<>>, j |-> 0, mix_spec |-> <<>>, msk |-> <<>>,
     V |-> <<>>, source_names |-> <<>>, X |-> <<>>, residual_args |-> <<>>,
     Y |-> <<>>, estimates |-> <<>>]

IdleCall == NewCall("idle", <<0, 0>>, 1, 0, FALSE, 1, FALSE)

Bump(c, stage) == [hist EXCEPT ![c][stage] = @ + 1]

\* Lines 74-79: the entry of separate() and the head of the first loop pass.
Enter(c) ==
    /\ call[c].pc = "start"
    /\ call' = [call EXCEPT ![c].audio_nn = call[c].audio,
                            ![c].source_names = <<>>,
                            ![c].V = <<>>,
                            ![c].j = 0,
                            ![c].pc = IF IsFirstSource(0) THEN "load" ELSE "vj"]
    /\ UNCHANGED <<param_scope, model_files, net, hist, inputs, targs, tloc, fs, log>>

\* Lines 81-83: build the network and load the parameters of model_path into
\* the process-wide scope; loading a file that does not exist raises.
LoadModel(c) ==
    /\ call[c].pc = "load"
    /\ IF call[c].model_path \in model_files
       THEN /\ param_scope' = call[c].model_path
            /\ call' = [call EXCEPT ![c].pc = "forward"]
            /\ hist' = [hist EXCEPT ![c].build = @ + 1, ![c].load = @ + 1]
       ELSE /\ param_scope' = param_scope
            /\ call' = [call EXCEPT ![c].pc = "raised"]
            /\ hist' = Bump(c, "build")
    /\ UNCHANGED <<model_files, net, inputs, targs, tloc, fs, log>>

\* Line 84: the forward pass, with whatever parameters the scope holds now.
Forward(c) ==
    /\ call[c].pc = "forward"
    /\ LET fw == UnmixForward(param_scope, call[c].audio_nn)
       IN  call' = [call EXCEPT ![c].mix_spec = fw.mix_spec,
                                ![c].msk = fw.msk,
                                ![c].pc = "vj"]
    /\ hist' = Bump(c, "forward")
    /\ UNCHANGED <<param_scope, model_files, net, inputs, targs, tloc, fs, log>>

\* Lines 85-91 and the loop head: V_j of source j, its name, the next pass.
ComputeV(c) ==
    /\ call[c].pc = "vj"
    /\ LET j == call[c].j
           Vj == EstimateV(call[c].msk, call[c].mix_spec, j,
                           call[c].softmask, call[c].alpha)
       IN  /\ call' = [call EXCEPT ![c].V = Append(@, Vj),
                                   ![c].source_names = Append(@, sources[j + 1]),
                                   ![c].j = j + 1,
                                   ![c].pc = IF j + 1 < Len(sources)
                                             THEN IF IsFirstSource(j + 1) THEN "load" ELSE "vj"
                                             ELSE "stft"]
           /\ hist' = [hist EXCEPT ![c].v[j + 1] = @ + 1]
    /\ UNCHANGED <<param_scope, model_files, net, inputs, targs, tloc, fs, log>>

\* Lines 92-100: V as an array, the mixture's complex spectrogram X, and the
\* test whether a residual is added.
Stft(c) ==
    /\ call[c].pc = "stft"
    /\ call' = [call EXCEPT ![c].X = STFT(call[c].audio_nn),
                            ![c].pc = IF NeedsResidual(call[c].residual_model)
                                      THEN "residual" ELSE "wiener"]
    /\ hist' = Bump(c, "stft")
    /\ UNCHANGED <<param_scope, model_files, net, inputs, targs, tloc, fs, log>>

\* Lines 101-103: the residual slice and its name.
Residual(c) ==
    /\ call[c].pc = "residual"
    /\ LET a == ResidualExponent(call[c].softmask, call[c].alpha)
       IN  call' = [call EXCEPT ![c].V = ResidualModel(@, call[c].X, a),
                                ![c].residual_args = Append(@, a),
                                ![c].source_names = Append(@, ResidualName),
                                ![c].pc = "wiener"]
    /\ hist' = Bump(c, "residual")
    /\ UNCHANGED <<param_scope, model_files, net, inputs, targs, tloc, fs, log>>

\* Lines 105-109: the refinement, the empty result and the head of the
\* synthesis loop.
Refine(c) ==
    /\ call[c].pc = "wiener"
    /\ call' = [call EXCEPT ![c].Y = Wiener(call[c].V, call[c].X, call[c].niter,
                                             call[c].softmask),
                            ![c].estimates = <<>>,
                            ![c].j = 0,
                            ![c].pc = IF Len(call[c].source_names) > 0 THEN "synth" ELSE "done"]
    /\ hist' = Bump(c, "wiener")
    /\ UNCHANGED <<param_scope, model_files, net, inputs, targs, tloc, fs, log>>

\* Lines 109-117: one pass of the synthesis loop; the last one returns.
Synth(c) ==
    /\ call[c].pc = "synth"
    /\ LET j == call[c].j
           name == call[c].source_names[j + 1]
           audio_hat == istft(SliceOf(call[c].Y, j))
       IN  /\ call' = [call EXCEPT ![c].estimates = DictSet(@, name, audio_hat),
                                   ![c].j = j + 1,
                                   ![c].pc = IF j + 1 < Len(call[c].source_names)
                                             THEN "synth" ELSE "done"]
           /\ hist' = [hist EXCEPT ![c].synth[j + 1] = @ + 1]
    /\ UNCHANGED <<param_scope, model_files, net, inputs, targs, tloc, fs, log>>

Step(c) ==
    \/ Enter(c)
    \/ LoadModel(c)
    \/ Forward(c)
    \/ ComputeV(c)
    \/ Stft(c)
    \/ Residual(c)
    \/ Refine(c)
    \/ Synth(c)

(***************************************************************************)
(* The inputs of a call.                                                   *)
(***************************************************************************)
\* Stereo test signals: a in the left channel, -a in the right.
Audios == {<<a, -a>> : a \in 0..MaxAmp}

MaskTables == [1..Len(sources) -> Masks]

NoTest == [pc |-> "idle", idx |-> 0, audio |-> <<>>, read |-> <<>>, n |-> 0, rate |-> 0,
           warned |-> FALSE, handed |-> <<>>, estimates |-> <<>>,
           output_path |-> <<>>]

NoArgs == [outdir |-> "", model |-> 1, niter |-> 0, alpha |-> 1, softmask |-> FALSE,
           residual_model |-> FALSE, sample_rate |-> 44100, start |-> 0, duration |-> 0]

(***************************************************************************)
(* test(): the driver, one action per stage of its loop over args.inputs.  *)
(***************************************************************************)

\* sf.read(..., always_2d=True): channel k of a file, as its amplitude.
ChannelAmp(k) == IF k % 2 = 1 THEN MaxAmp ELSE -MaxAmp

\* "if audio.shape[1] > 2: audio = audio[:, :2]"
TruncateChannels(audio) == IF Len(audio) > 2 THEN SubSeq(audio, 1, 2) ELSE audio

\* resampy.resample(audio, rate, sample_rate, axis=0): the number of samples
\* of every channel after resampling; the channels stay as they are.
Resample(n, rate, sample_rate) == (n * sample_rate) \div rate

\* np.repeat(audio, 2, axis=1): every channel twice, in place.
Repeat(audio, k) == [i \in 1..(k * Len(audio)) |-> audio[((i - 1) \div k) + 1]]

DuplicateMono_Off(audio) == audio

\* "if audio.shape[1] == 1: audio = np.repeat(audio, 2, axis=1)"
DuplicateMono(audio) == IF Len(audio) = 1 THEN Repeat(audio, 2) ELSE audio

\* Path(args.model).stem
ModelStem(model) == IF model = 1 THEN "x-umx" ELSE "x-umx-alt"

OutputPath_NoStem(input_file, outdir, model, model_exists, n_inputs) ==
    IF outdir = ""
    THEN IF ~model_exists
         THEN [ok |-> FALSE, path |-> <<>>]
         ELSE [ok |-> TRUE, path |-> <<input_file.stem \o "_" \o ModelStem(model)>>]
    ELSE [ok |-> TRUE, path |-> <<outdir>>]

\* Lines 173-185.  Path components as a sequence.  With no outdir and a
\* model file that does not exist, line 176 reads the name "model", which
\* nothing defines: a NameError.
OutputPath(input_file, outdir, model, model_exists, n_inputs) ==
    IF outdir = ""
    THEN IF ~model_exists
         THEN [ok |-> FALSE, path |-> <<>>]
         ELSE [ok |-> TRUE, path |-> <<input_file.stem \o "_" \o ModelStem(model)>>]
    ELSE IF n_inputs > 1
         THEN [ok |-> TRUE, path |-> <<outdir, input_file.stem>>]
         ELSE [ok |-> TRUE, path |-> <<outdir>>]

\* str(output_path / Path(target).with_suffix('.wav'))
WavName(target) == target \o ".wav"

\* Lines 189-194 on the disk: a file written again replaces the older one.
RECURSIVE WriteAll(_, _, _, _, _)
WriteAll(files, dir, estimates, by, k) ==
    IF k = 0 THEN files
    ELSE LET f == WavName(estimates[k].key)
             before == WriteAll(files, dir, estimates, by, k - 1)
         IN  {x \in before : ~(x.dir = dir /\ x.file = f)}
                 \cup {[dir |-> dir, file |-> f, by |-> by]}

RECURSIVE WriteLog(_, _, _, _, _)
WriteLog(events, dir, estimates, by, k) ==
    IF k = 0 THEN events
    ELSE Append(WriteLog(events, dir, estimates, by, k - 1),
                [op |-> "write", dir |-> dir, file |-> WavName(estimates[k].key), by |-> by])

\* Lines 132-147: the number of frames sf.read returns of a file of NbSamples
\* frames, from start seconds on and for duration seconds if that is positive.
FramesRead(start_s, duration_s, rate) ==
    LET start == start_s * rate
        stop == IF duration_s > 0 THEN start + duration_s * rate ELSE NbSamples
        last == IF stop < NbSamples THEN stop ELSE NbSamples
    IN  Max(0, last - start)

\* Lines 130-147: the next input file is read.
ReadInput ==
    /\ tloc.pc = "read"
    /\ \E nch \in 1..MaxChannels, rate \in Rates :
          tloc' = [tloc EXCEPT !.audio = [k \in 1..nch |-> ChannelAmp(k)],
                               !.read = [k \in 1..nch |-> ChannelAmp(k)],
                               !.n = FramesRead(targs.start, targs.duration, rate),
                               !.rate = rate,
                               !.warned = FALSE,
                               !.pc = "normalise"]
    /\ UNCHANGED <<param_scope, model_files, net, call, hist, inputs, targs, fs, log>>

\* Lines 149-162: at most two channels, the model's sample rate, mono doubled.
Normalise ==
    /\ tloc.pc = "normalise"
    /\ tloc' = [tloc EXCEPT !.warned = Len(tloc.audio) > 2,
                            !.audio = DuplicateMono(TruncateChannels(tloc.audio)),
                            !.n = IF tloc.rate # targs.sample_rate
                                  THEN Resample(tloc.n, tloc.rate, targs.sample_rate)
                                  ELSE tloc.n,
                            !.pc = "separate"]
    /\ UNCHANGED <<param_scope, model_files, net, call, hist, inputs, targs, fs, log>>

\* Lines 164-171: the call of separate(), which raises when the model file
\* cannot be loaded.
CallSeparate ==
    /\ tloc.pc = "separate"
    /\ LET handed == [audio |-> tloc.audio, n |-> tloc.n, read |-> tloc.read,
                      rate |-> tloc.rate, warned |-> tloc.warned]
       IN  IF targs.model \in model_files
           THEN /\ param_scope' = targs.model
                /\ tloc' = [tloc EXCEPT
                              !.handed = Append(@, handed),
                              !.estimates = SeparateResult(tloc.audio, targs.model, targs.niter,
                                                           targs.softmask, targs.alpha,
                                                           targs.residual_model),
                              !.pc = "output"]
           ELSE /\ param_scope' = param_scope
                /\ tloc' = [tloc EXCEPT !.handed = Append(@, handed), !.pc = "raised"]
    /\ UNCHANGED <<model_files, net, call, hist, inputs, targs, fs, log>>

\* Lines 173-187: the output directory is chosen and made.
MakeOutputDir ==
    /\ tloc.pc = "output"
    /\ LET out == OutputPath(inputs[tloc.idx], targs.outdir, targs.model,
                             targs.model \in model_files, Len(inputs))
       IN  IF out.ok
           THEN /\ tloc' = [tloc EXCEPT !.output_path = out.path, !.pc = "write"]
                /\ log' = Append(log, [op |-> "mkdir", dir |-> out.path, file |-> "",
                                       by |-> tloc.idx])
           ELSE /\ tloc' = [tloc EXCEPT !.pc = "raised"]
                /\ log' = log
    /\ UNCHANGED <<param_scope, model_files, net, call, hist, inputs, targs, fs>>

\* Lines 189-194 and the loop head: every estimate is written, then the
\* next input file, if any.
WriteEstimates ==
    /\ tloc.pc = "write"
    /\ fs' = WriteAll(fs, tloc.output_path, tloc.estimates, tloc.idx, Len(tloc.estimates))
    /\ log' = WriteLog(log, tloc.output_path, tloc.estimates, tloc.idx, Len(tloc.estimates))
    /\ tloc' = [tloc EXCEPT !.idx = tloc.idx + 1,
                            !.pc = IF tloc.idx < Len(inputs) THEN "read" ELSE "done"]
    /\ UNCHANGED <<param_scope, model_files, net, call, hist, inputs, targs>>

(***************************************************************************)
(* Spec: one call of separate() on any input, alone in its process.        *)
(***************************************************************************)
Init ==
    /\ param_scope = 0
    /\ model_files \in {{}, ModelPaths}
    /\ \E m \in MaskTables : net = [p \in ModelPaths |-> m]
    /\ \E audio \in Audios, niter \in Niters, alpha \in Alphas,
          softmask \in BOOLEAN, residual_model \in BOOLEAN :
          call = [c \in CallIds |->
                    IF c = 1
                    THEN NewCall("start", audio, 1, niter, softmask, alpha, residual_model)
                    ELSE IdleCall]
    /\ hist = [c \in CallIds |-> NoHist]
    /\ inputs = <<>>
    /\ targs = NoArgs
    /\ tloc = NoTest
    /\ fs = {}
    /\ log = <<>>

Next == Step(1)

Spec == Init /\ [][Next]_vars

(***************************************************************************)
(* Claims about one call of separate(), checked under Spec.                *)
(***************************************************************************)
Running(c) == call[c].pc \notin {"idle"}

Refining(c) == call[c].pc \in {"wiener", "synth", "done"}

KnownSlice(c, j) ==
    [ch \in 1..2 |-> call[c].msk[2 * (j - 1) + ch] * call[c].mix_spec[ch]]

\* C1: a call with alpha <= 0 or niter < 0 is rejected at entry: it never
\* gets past its start, and none of its stages (building the model, loading
\* parameters, a V_j, the STFT, the refinement) ever runs.
C1_InvalidConfigRejectedAtEntry ==
    \A c \in CallIds :
        (Running(c) /\ (call[c].alpha <= 0 \/ call[c].niter < 0))
            => (call[c].pc \in {"start", "raised"} /\ hist[c] = NoHist)

\* C3: once the first loop is over, the residual step has run exactly when
\* residual_model is true or there is exactly one known source; if it ran, V
\* and the names hold the known sources plus exactly one more, and if it did
\* not, exactly the known sources.
C3_ResidualIffRequested ==
    \A c \in CallIds :
        /\ hist[c].residual <= 1
        /\ Refining(c) =>
             /\ (hist[c].residual = 1) <=> (call[c].residual_model \/ Len(sources) = 1)
             /\ hist[c].residual = 1 =>
                  /\ Len(call[c].V) = Len(sources) + 1
                  /\ Len(call[c].source_names) = Len(sources) + 1
                  /\ SubSeq(call[c].source_names, 1, Len(sources)) = sources
                  /\ call[c].source_names[Len(sources) + 1] \notin {sources[j] : j \in 1..Len(sources)}
             /\ hist[c].residual = 0 =>
                  /\ Len(call[c].V) = Len(sources)
                  /\ call[c].source_names = <<"bass", "drums", "vocals", "other">>

C3_Witness ==
    /\ call[1].pc = "done"
    /\ call[1].residual_model
    /\ hist[1].residual = 1
    /\ Len(call[1].V) = 5
    /\ call[1].source_names[5] = "residual"

\* C4: every known source's slice V_j is (mask_j * mix_spec)^alpha when
\* softmask is true and mask_j * mix_spec when it is false, whatever alpha is.
C4_SpectrogramEstimate ==
    \A c \in CallIds :
        \A j \in 1..Len(sources) :
            j <= Len(call[c].V) =>
                /\ call[c].softmask =>
                     call[c].V[j] = [ch \in 1..2 |-> Pow(KnownSlice(c, j)[ch], call[c].alpha)]
                /\ ~call[c].softmask =>
                     /\ call[c].V[j] = KnownSlice(c, j)
                     /\ \A a \in Alphas :
                            EstimateV(call[c].msk, call[c].mix_spec, j - 1, FALSE, a)
                                = call[c].V[j]

C4_Witness ==
    /\ call[1].pc = "done"
    /\ ~call[1].softmask
    /\ call[1].alpha = 2
    /\ call[1].V[1][1] = n_fft \div 2
    /\ call[1].V[2][1] = 0

\* C5: at the refinement the names and the source slices of V are equally
\* many (4, or 5 with the residual); the mapping returned has one waveform
\* per name, keyed in the order bass, drums, vocals, other and then the
\* residual, and the waveform under the j-th name is the synthesis of the
\* j-th slice of Y.
C5_OrderAndCorrespondence ==
    \A c \in CallIds :
        /\ Refining(c) =>
             /\ Len(call[c].source_names) = Len(call[c].V)
             /\ Len(call[c].V) \in {4, 5}
        /\ call[c].pc \in {"synth", "done"} => Len(call[c].Y) = Len(call[c].source_names)
        /\ call[c].pc = "done" =>
             /\ Keys(call[c].estimates) = call[c].source_names
             /\ Keys(call[c].estimates) \in
                    {<<"bass", "drums", "vocals", "other">>,
                     <<"bass", "drums", "vocals", "other", "residual">>}
             /\ \A j \in 1..Len(call[c].source_names) :
                    call[c].estimates[j].value = istft(call[c].Y[j])

C5_Witness ==
    /\ call[1].pc = "done"
    /\ Len(call[1].estimates) = 5
    /\ call[1].estimates[1].value # call[1].estimates[2].value
    /\ call[1].estimates[5].value # call[1].estimates[2].value
    /\ call[1].estimates[2].value.wave[1] = 1

\* C7: data flows forward: the parameters are loaded at most once and before
\* any V_j; each V_j is computed at most once; X and all four V_j are there
\* before the residual step; the residual step is settled before the
\* refinement; the refinement runs at most once; a source is synthesised only
\* after the refinement and at most once; and a call that returns has run
\* each of these exactly once, the synthesis once per name.
C7_ForwardDataFlow ==
    \A c \in CallIds :
        LET h == hist[c]
            AllV == \A j \in 1..Len(sources) : h.v[j] = 1
        IN  /\ h.load <= 1 /\ h.build <= 1 /\ h.forward <= 1
            /\ h.stft <= 1 /\ h.wiener <= 1
            /\ \A j \in 1..Len(sources) : h.v[j] <= 1
            /\ \A j \in 1..(Len(sources) + 1) : h.synth[j] <= 1
            /\ h.forward = 1 => h.load = 1
            /\ \A j \in 1..Len(sources) :
                   h.v[j] = 1 => (h.forward = 1 /\ \A i \in 1..(j - 1) : h.v[i] = 1)
            /\ h.stft = 1 => AllV
            /\ h.residual <= 1
            /\ h.residual = 1 => (AllV /\ h.stft = 1)
            /\ h.wiener = 1 =>
                   /\ AllV /\ h.stft = 1
                   /\ h.residual = IF call[c].residual_model THEN 1 ELSE 0
            /\ \A j \in 1..(Len(sources) + 1) :
                   h.synth[j] = 1 => (h.wiener = 1 /\ j <= Len(call[c].source_names))
            /\ call[c].pc = "done" =>
                   /\ h.load = 1 /\ h.wiener = 1 /\ AllV
                   /\ \A j \in 1..Len(call[c].source_names) : h.synth[j] = 1

C7_Witness ==
    /\ call[1].pc = "done"
    /\ call[1].residual_model
    /\ hist[1].load = 1
    /\ hist[1].wiener = 1
    /\ hist[1].synth[5] = 1

\* C8: the exponent handed to the residual modeler is the one applied to the
\* known sources' slices of V: alpha with softmask, 1 without, whatever
\* alpha is.
C8_ResidualExponent ==
    \A c \in CallIds :
        hist[c].residual = 1 =>
            /\ Len(call[c].residual_args) = 1
            /\ call[c].residual_args[1] = IF call[c].softmask THEN call[c].alpha ELSE 1
            /\ \A j \in 1..Len(sources) :
                   call[c].V[j] =
                       [ch \in 1..2 |-> Pow(KnownSlice(c, j)[ch], call[c].residual_args[1])]

C8_Witness ==
    /\ call[1].pc = "done"
    /\ hist[1].residual = 1
    /\ ~call[1].softmask
    /\ call[1].alpha = 2
    /\ call[1].residual_args = <<1>>
    /\ call[1].V[1][1] = n_fft \div 2

(***************************************************************************)
(* SpecConc: two calls of separate() in one process, with different model  *)
(* files, their stages interleaved in any order.                           *)
(***************************************************************************)
InitConc ==
    /\ param_scope = 0
    /\ model_files = ModelPaths
    /\ net \in [ModelPaths -> MaskTables]
    /\ \E p1 \in ModelPaths, p2 \in ModelPaths, residual_model \in BOOLEAN :
          call = [c \in CallIds |->
                    NewCall("start", <<MaxAmp, -MaxAmp>>, IF c = 1 THEN p1 ELSE p2,
                            1, FALSE, 1, residual_model)]
    /\ hist = [c \in CallIds |-> NoHist]
    /\ inputs = <<>>
    /\ targs = NoArgs
    /\ tloc = NoTest
    /\ fs = {}
    /\ log = <<>>

NextConc == \E c \in CallIds : Step(c)

SpecConc == InitConc /\ [][NextConc]_vars

\* C2: no state is shared between calls: whatever the interleaving, a call
\* that returns has the estimates it returns when run alone on its arguments.
C2_CallsAreIndependent ==
    \A c \in CallIds :
        call[c].pc = "done" =>
            call[c].estimates =
                SeparateResult(call[c].audio, call[c].model_path, call[c].niter,
                               call[c].softmask, call[c].alpha, call[c].residual_model)

(***************************************************************************)
(* SpecTest: one run of test() over one or more input files.               *)
(***************************************************************************)
InputFiles == [folder : Folders, stem : Stems]

InputLists == UNION {[1..k -> InputFiles] : k \in 1..MaxInputs}

InitTest ==
    /\ param_scope = 0
    /\ model_files \in {{}, ModelPaths}
    /\ net = [p \in ModelPaths |-> [j \in 1..Len(sources) |-> (p + j) % (MaxMask + 1)]]
    /\ call = [c \in CallIds |-> IdleCall]
    /\ hist = [c \in CallIds |-> NoHist]
    /\ inputs \in InputLists
    /\ \E outdir \in OutDirs, residual_model \in BOOLEAN :
          targs = [NoArgs EXCEPT !.outdir = outdir, !.residual_model = residual_model,
                                 !.niter = 1]
    /\ tloc = [NoTest EXCEPT !.pc = "read", !.idx = 1]
    /\ fs = {}
    /\ log = <<>>

NextTest ==
    \/ ReadInput
    \/ Normalise
    \/ CallSeparate
    \/ MakeOutputDir
    \/ WriteEstimates

SpecTest == InitTest /\ [][NextTest]_vars

(***************************************************************************)
(* Claims about test(), checked under SpecTest.                            *)
(***************************************************************************)
Mkdirs == {i \in 1..Len(log) : log[i].op = "mkdir"}

Writes == {i \in 1..Len(log) : log[i].op = "write"}

EstimateNames == IF targs.residual_model THEN Append(sources, "residual") ELSE sources

\* The directory the claim C9 names for input i.
ExpectedDir(i) ==
    IF targs.outdir # ""
    THEN IF Len(inputs) = 1 THEN <<targs.outdir>> ELSE <<targs.outdir, inputs[i].stem>>
    ELSE <<inputs[i].stem \o "_" \o ModelStem(targs.model)>>

\* C6: the audio handed to separate() has exactly two channels: the first
\* two of an input with more (and a warning), a mono channel twice, a stereo
\* input's channels as they are; resampled or not.
C6_TwoChannelsHanded ==
    /\ tloc.pc = "separate" => Len(tloc.audio) = 2
    /\ \A i \in 1..Len(tloc.handed) :
          LET h == tloc.handed[i]
          IN  /\ Len(h.audio) = 2
              /\ Len(h.read) > 2 => (h.audio = <<h.read[1], h.read[2]>> /\ h.warned)
              /\ Len(h.read) = 1 => h.audio = <<h.read[1], h.read[1]>>
              /\ Len(h.read) = 2 => (h.audio = h.read /\ ~h.warned)
              /\ h.n = IF h.rate = targs.sample_rate THEN NbSamples
                       ELSE (NbSamples * targs.sample_rate) \div h.rate

C6_Witness ==
    /\ Len(tloc.handed) = 2
    /\ Len(tloc.handed[1].read) = 3
    /\ tloc.handed[1].rate # targs.sample_rate
    /\ tloc.handed[1].n = 2 * NbSamples
    /\ Len(tloc.handed[2].read) = 1
    /\ tloc.handed[2].rate = targs.sample_rate
    /\ Len(tloc.handed[2].audio) = 2

\* C9: when test() ends, every input file has had its directory made (outdir,
\* outdir/<stem>, or <stem>_<model name> with no outdir, whether the model
\* file exists or not) and exactly one <name>.wav per estimate written into
\* it.
C9_EveryInputWritten ==
    tloc.pc \in {"done", "raised"} =>
        \A i \in 1..Len(inputs) :
            /\ \E e \in Mkdirs : log[e].by = i /\ log[e].dir = ExpectedDir(i)
            /\ \A k \in 1..Len(EstimateNames) :
                   Cardinality({w \in Writes : /\ log[w].by = i
                                               /\ log[w].dir = ExpectedDir(i)
                                               /\ log[w].file = EstimateNames[k] \o ".wav"}) = 1
            /\ Cardinality({w \in Writes : log[w].by = i}) = Len(EstimateNames)

\* C10 as stated: two distinct input files never get the same output
\* directory, and what was written for an input stays on disk.
C10_NoSharedOutputDir ==
    /\ \A e1 \in Mkdirs, e2 \in Mkdirs :
          inputs[log[e1].by] # inputs[log[e2].by] => log[e1].dir # log[e2].dir
    /\ \A w \in Writes :
          [dir |-> log[w].dir, file |-> log[w].file, by |-> log[w].by] \in fs

\* C10 as amended: two input files with different stems never get the same
\* output directory, and what was written for an input stays on disk unless
\* another input of the same stem was processed.
C10_DistinctStemsDistinctDirs ==
    /\ \A e1 \in Mkdirs, e2 \in Mkdirs :
          inputs[log[e1].by].stem # inputs[log[e2].by].stem => log[e1].dir # log[e2].dir
    /\ \A w \in Writes :
          (\A e \in Mkdirs : log[e].by # log[w].by
                                => inputs[log[e].by].stem # inputs[log[w].by].stem)
              => [dir |-> log[w].dir, file |-> log[w].file, by |-> log[w].by] \in fs

C10_Witness ==
    /\ tloc.pc = "done"
    /\ Len(inputs) = 2
    /\ inputs[1].stem # inputs[2].stem
    /\ targs.outdir = "out"
    /\ [dir |-> <<"out", inputs[1].stem>>, file |-> "bass.wav", by |-> 1] \in fs
    /\ [dir |-> <<"out", inputs[2].stem>>, file |-> "bass.wav", by |-> 2] \in fs

====
